---- MODULE Spec2Model ----
(***************************************************************************)
(* The game API of bridge-scorer (src/server.js, the Redis handler at      *)
(* lines 127-492): one JSON game document per gameId in a key-value store  *)
(* with a 24 hour expiry, changed by PATCH requests that are authorized    *)
(* facet by facet and then deep-merged into the stored document, read by   *)
(* GET requests that filter it for the reader, and replaced by PUT         *)
(* requests that advance the round when its boards are all scored.         *)
(*                                                                         *)
(* Spec      one client sending PATCH requests, with expiry and store      *)
(*           failures;                                                     *)
(* ConcSpec  several clients whose PATCH requests interleave;              *)
(* ApiSpec   one client sending GET, PUT and PATCH requests;               *)
(* MergeSpec deepMerge applied to documents and updates of every shape;    *)
(* ConnSpec  concurrent handler invocations calling getRedisClient on an   *)
(*           instance that has no connection yet.                          *)
(***************************************************************************)
EXTENDS Integers, Sequences, FiniteSets, TLC

(***************************************************************************)
(* JSON values.  Every value is a record whose field k names its kind, so  *)
(* that values of different kinds can be compared.  An object carries a    *)
(* function from its keys to values, an array the sequence of its elements.*)
(* Undefined is the value of a property or header that is absent.          *)
(***************************************************************************)
Undefined == [k |-> "undefined"]
Null == [k |-> "null"]
Str(s) == [k |-> "string", v |-> s]
Num(n) == [k |-> "number", v |-> n]
Obj(f) == [k |-> "object", v |-> f]
Arr(elements) == [k |-> "array", v |-> elements]
Bool(b) == [k |-> "boolean", v |-> b]
NoKeys == [key \in {} |-> Null]
EmptyObj == Obj(NoKeys)

\* isObject (server.js:192): item && typeof item === 'object' && !Array.isArray(item)
isObject(item) == item.k = "object"

\* JavaScript truthiness of a value: if (x), !x, x && y
Truthy(item) ==
    CASE item.k = "undefined" -> FALSE
      [] item.k = "null" -> FALSE
      [] item.k = "string" -> item.v # ""
      [] item.k = "number" -> item.v # 0
      [] item.k = "boolean" -> item.v
      [] OTHER -> TRUE

\* a === b: primitives by value, objects and arrays by reference (two parsed
\* objects are never the same reference)
StrictEq(a, b) == a = b /\ a.k \notin {"object", "array"}

\* obj.hasOwnProperty(key), for obj an object or a primitive
hasOwnProperty(obj, key) == obj.k = "object" /\ key \in DOMAIN obj.v

\* obj?.[key]: undefined when obj is null or undefined or lacks the key
Prop(obj, key) ==
    IF obj.k = "object" /\ key \in DOMAIN obj.v THEN obj.v[key] ELSE Undefined

\* obj with the property key set to value
SetProp(obj, key, value) == Obj((key :> value) @@ obj.v)

\* String(n) of an integer
Digit(d) == <<"0", "1", "2", "3", "4", "5", "6", "7", "8", "9">>[d + 1]
RECURSIVE NumKey(_)
NumKey(n) ==
    IF n < 0 THEN "-" \o NumKey(0 - n)
    ELSE IF n < 10 THEN Digit(n)
    ELSE NumKey(n \div 10) \o Digit(n % 10)

\* The property name a value stands for in obj[value]
PropertyKey(value) ==
    CASE value.k = "number" -> NumKey(value.v)
      [] value.k = "string" -> value.v
      [] value.k = "null" -> "null"
      [] value.k = "boolean" -> IF value.v THEN "true" ELSE "false"
      [] OTHER -> "undefined"

\* Number(value) where it is a number; the strings of the model's documents
\* are not numeric, they and undefined, objects and arrays give NaN
IsNaN(value) == value.k \notin {"number", "null", "boolean"}
ToNumber(value) ==
    CASE value.k = "number" -> value.v
      [] value.k = "boolean" -> IF value.v THEN 1 ELSE 0
      [] OTHER -> 0

\* The characters of the strings that occur in the model's documents
Chars(s) ==
    CASE s = "S1" -> <<"S", "1">>
      [] s = "S2" -> <<"S", "2">>
      [] s = "T" -> <<"T">>
      [] s = "X" -> <<"X">>
      [] s = "G" -> <<"G">>
      [] OTHER -> <<>>

\* The property name of a string index
IndexKey(i) == CASE i = 1 -> "0" [] i = 2 -> "1" [] OTHER -> "2"

\* { ...target }: the own enumerable properties of an object, the indexed
\* elements of an array, the indexed characters of a string; nothing for null,
\* undefined and numbers
Spread(target) ==
    CASE target.k = "object" -> target.v
      [] target.k = "array" ->
           [key \in {IndexKey(i) : i \in DOMAIN target.v} |->
               target.v[CHOOSE i \in DOMAIN target.v : IndexKey(i) = key]]
      [] target.k = "string" ->
           LET cs == Chars(target.v) IN
           [key \in {IndexKey(i) : i \in DOMAIN cs} |->
               Str(cs[CHOOSE i \in DOMAIN cs : IndexKey(i) = key])]
      [] OTHER -> NoKeys

\* The merge that stores a null of the update like any other value
RECURSIVE deepMergeKeepNull(_, _)
deepMergeKeepNull(target, source) ==
    LET output == Spread(target) IN
    IF isObject(target) /\ isObject(source)
    THEN Obj([key \in DOMAIN output \cup DOMAIN source.v |->
                IF key \notin DOMAIN source.v THEN output[key]
                ELSE IF isObject(source.v[key])
                     THEN IF key \notin DOMAIN target.v
                          THEN source.v[key]
                          ELSE deepMergeKeepNull(target.v[key], source.v[key])
                     ELSE source.v[key]])
    ELSE Obj(output)

\* The merge that replaces a nested mapping by the one of the update
deepMergeShallow(target, source) ==
    LET output == Spread(target) IN
    IF isObject(target) /\ isObject(source)
    THEN LET deleted == {key \in DOMAIN source.v : source.v[key] = Null}
             written == DOMAIN source.v \ deleted
         IN Obj([key \in (DOMAIN output \ deleted) \cup written |->
                   IF key \notin written THEN output[key] ELSE source.v[key]])
    ELSE Obj(output)

(***************************************************************************)
(* deepMerge (server.js:166-190).  Each iteration of the forEach touches   *)
(* output[key] only, so the result is given key by key.                    *)
(***************************************************************************)
RECURSIVE deepMerge(_, _)
deepMerge(target, source) ==
    LET output == Spread(target) IN
    IF isObject(target) /\ isObject(source)
    THEN LET deleted == {key \in DOMAIN source.v : source.v[key] = Null}
             written == DOMAIN source.v \ deleted
         IN Obj([key \in (DOMAIN output \ deleted) \cup written |->
                   IF key \notin written THEN output[key]
                   ELSE IF isObject(source.v[key])
                        THEN IF key \notin DOMAIN target.v
                             THEN source.v[key]
                             ELSE deepMerge(target.v[key], source.v[key])
                        ELSE source.v[key]])
    ELSE Obj(output)

(***************************************************************************)
(* The authorization checks of the PATCH handler (server.js:331-429).      *)
(* Each check yields Pass or the response the handler sends and returns    *)
(* with.  facet names the check that answered.                             *)
(***************************************************************************)
Pass == [status |-> 0, facet |-> "none", error |-> ""]
Deny(status, facet, error) == [status |-> status, facet |-> facet, error |-> error]
\* a TypeError thrown inside the handler, caught at server.js:483-491
Threw == Deny(500, "exception", "Internal server error")

\* server.js:335-355
checkRound(existingGame, updates, adminToken, sessionId) ==
    IF hasOwnProperty(updates, "currentRound")
    THEN IF Truthy(adminToken)
         THEN IF ~StrictEq(Prop(existingGame, "adminToken"), adminToken)
              THEN Deny(403, "round", "Invalid admin token")
              ELSE Pass
         ELSE IF Truthy(sessionId)
         THEN LET tables == Prop(existingGame, "tables")
                  table1Match == StrictEq(Prop(Prop(tables, "1"), "sessionId"), sessionId)
                  table2Match == StrictEq(Prop(Prop(tables, "2"), "sessionId"), sessionId)
              IN IF ~table1Match /\ ~table2Match
                 THEN Deny(403, "round",
                           "Not authorized to advance round - must be a player in this game")
                 ELSE Pass
         ELSE Deny(403, "round", "Authorization required to advance round")
    ELSE Pass

\* server.js:363-380: clearing a table's sessionId
checkUnlock(existingGame, tableUpdate, existingTable, adminToken, sessionId) ==
    IF hasOwnProperty(tableUpdate, "sessionId") /\ Prop(tableUpdate, "sessionId") = Null
    THEN IF Truthy(adminToken)
         THEN IF ~StrictEq(Prop(existingGame, "adminToken"), adminToken)
              THEN Deny(403, "unlock", "Invalid admin token")
              ELSE Pass
         ELSE IF Truthy(sessionId)
         THEN IF ~StrictEq(Prop(existingTable, "sessionId"), sessionId)
              THEN Deny(403, "unlock", "Invalid session - cannot unlock this table")
              ELSE Pass
         ELSE Deny(403, "unlock", "Authorization required to unlock table")
    ELSE Pass

\* The score check satisfied by any admin token
checkScoresAnyToken(existingGame, tableUpdate, existingTable, adminToken) ==
    IF Truthy(Prop(tableUpdate, "scores"))
    THEN LET existingTableSession == Prop(existingTable, "sessionId") IN
         IF Truthy(existingTableSession)
            /\ ~StrictEq(existingTableSession, Prop(tableUpdate, "sessionId"))
         THEN IF ~Truthy(adminToken)
              THEN Deny(403, "scores", "Not authorized to update this table")
              ELSE Pass
         ELSE Pass
    ELSE Pass

\* server.js:382-393: writing a table's scores
checkScores(existingGame, tableUpdate, existingTable, adminToken) ==
    IF Truthy(Prop(tableUpdate, "scores"))
    THEN LET existingTableSession == Prop(existingTable, "sessionId") IN
         IF Truthy(existingTableSession)
            /\ ~StrictEq(existingTableSession, Prop(tableUpdate, "sessionId"))
         THEN IF ~Truthy(adminToken)
                 \/ ~StrictEq(Prop(existingGame, "adminToken"), adminToken)
              THEN Deny(403, "scores", "Not authorized to update this table")
              ELSE Pass
         ELSE Pass
    ELSE Pass

\* server.js:360-393: the body of the loop for one table number.  Reading a
\* property of a null tableUpdate throws.
checkTable(existingGame, updates, tableNum, adminToken, sessionId) ==
    LET tableUpdate == Prop(Prop(updates, "tables"), tableNum)
        existingTable == Prop(Prop(existingGame, "tables"), tableNum)
    IN IF tableUpdate = Null THEN Threw
       ELSE LET unlock == checkUnlock(existingGame, tableUpdate, existingTable,
                                      adminToken, sessionId)
            IN IF unlock # Pass THEN unlock
               ELSE checkScores(existingGame, tableUpdate, existingTable, adminToken)

\* Object.keys of the tables of an update: integer-like keys in ascending order
TableNums == <<"1", "2">>
ObjectKeys(obj) ==
    IF isObject(obj)
    THEN SelectSeq(TableNums, LAMBDA key : key \in DOMAIN obj.v)
    ELSE <<>>

\* server.js:357-395: the loop returns at the first table that denies
RECURSIVE checkTableLoop(_, _, _, _, _)
checkTableLoop(existingGame, updates, keys, adminToken, sessionId) ==
    IF keys = <<>> THEN Pass
    ELSE LET first == checkTable(existingGame, updates, Head(keys), adminToken, sessionId)
         IN IF first # Pass THEN first
            ELSE checkTableLoop(existingGame, updates, Tail(keys), adminToken, sessionId)

checkTables(existingGame, updates, adminToken, sessionId) ==
    IF Truthy(Prop(updates, "tables"))
    THEN checkTableLoop(existingGame, updates, ObjectKeys(Prop(updates, "tables")),
                        adminToken, sessionId)
    ELSE Pass

\* The lock check without the denial of an acquire
checkManagementLockNoContention(existingGame, updates, adminToken, sessionId) ==
    IF hasOwnProperty(updates, "managementSessionId")
    THEN LET currentLock == Prop(existingGame, "managementSessionId")
             requestedSessionId == Prop(updates, "managementSessionId")
         IN IF requestedSessionId = Null
            THEN IF Truthy(adminToken)
                 THEN IF ~StrictEq(Prop(existingGame, "adminToken"), adminToken)
                      THEN Deny(403, "lock", "Invalid admin token")
                      ELSE Pass
                 ELSE IF ~StrictEq(sessionId, currentLock)
                 THEN Deny(403, "lock", "Cannot release management lock - not your session")
                 ELSE Pass
            ELSE Pass
    ELSE Pass

\* The lock check with the acquire compared to the X-Session-Id header
\* instead of the requested value
checkManagementLockByHeader(existingGame, updates, adminToken, sessionId) ==
    IF hasOwnProperty(updates, "managementSessionId")
    THEN LET currentLock == Prop(existingGame, "managementSessionId")
             requestedSessionId == Prop(updates, "managementSessionId")
         IN IF requestedSessionId = Null
            THEN IF Truthy(adminToken)
                 THEN IF ~StrictEq(Prop(existingGame, "adminToken"), adminToken)
                      THEN Deny(403, "lock", "Invalid admin token")
                      ELSE Pass
                 ELSE IF ~StrictEq(sessionId, currentLock)
                 THEN Deny(403, "lock", "Cannot release management lock - not your session")
                 ELSE Pass
            ELSE IF Truthy(currentLock) /\ ~StrictEq(currentLock, sessionId)
                 THEN Deny(423, "lock", "Management is locked by another session")
                 ELSE Pass
    ELSE Pass

\* server.js:397-429
checkManagementLock(existingGame, updates, adminToken, sessionId) ==
    IF hasOwnProperty(updates, "managementSessionId")
    THEN LET currentLock == Prop(existingGame, "managementSessionId")
             requestedSessionId == Prop(updates, "managementSessionId")
         IN IF requestedSessionId = Null
            THEN IF Truthy(adminToken)
                 THEN IF ~StrictEq(Prop(existingGame, "adminToken"), adminToken)
                      THEN Deny(403, "lock", "Invalid admin token")
                      ELSE Pass
                 ELSE IF ~StrictEq(sessionId, currentLock)
                 THEN Deny(403, "lock", "Cannot release management lock - not your session")
                 ELSE Pass
            ELSE IF Truthy(currentLock) /\ ~StrictEq(currentLock, requestedSessionId)
                 THEN Deny(423, "lock", "Management is locked by another session")
                 ELSE Pass
    ELSE Pass

\* The checks with the management lock asked before the tables
authorizeLockFirst(existingGame, updates, adminToken, sessionId) ==
    LET round == checkRound(existingGame, updates, adminToken, sessionId)
        tables == checkTables(existingGame, updates, adminToken, sessionId)
        lock == checkManagementLock(existingGame, updates, adminToken, sessionId)
    IN IF round # Pass THEN round
       ELSE IF lock # Pass THEN lock
       ELSE IF tables # Pass THEN tables
       ELSE Deny(200, "none", "")

\* server.js:331-436: the checks in the order of the code; 200 when none returns
authorize(existingGame, updates, adminToken, sessionId) ==
    LET round == checkRound(existingGame, updates, adminToken, sessionId)
        tables == checkTables(existingGame, updates, adminToken, sessionId)
        lock == checkManagementLock(existingGame, updates, adminToken, sessionId)
    IN IF round # Pass THEN round
       ELSE IF tables # Pass THEN tables
       ELSE IF lock # Pass THEN lock
       ELSE Deny(200, "none", "")

\* JSON.parse(JSON.stringify(value)): properties whose value is undefined are
\* dropped, everything else survives
RECURSIVE JSONRoundTrip(_)
JSONRoundTrip(value) ==
    IF value.k = "object"
    THEN Obj([key \in {x \in DOMAIN value.v : value.v[x] # Undefined} |->
                JSONRoundTrip(value.v[key])])
    ELSE value

(***************************************************************************)
(* The requests of the model.                                              *)
(***************************************************************************)
\* EX of client.set, in seconds (24 hours)
EX == 86400
\* The seconds that pass in one step of the clock
TickSeconds == 43200
\* The number of clients that send requests concurrently
NumClients == 2
Clients == 1 .. NumClients

\* X-Admin-Token: absent, the game's token, another token
AdminHeaders == {Undefined, Str("T"), Str("X")}
\* X-Session-Id: absent or the id of a session
SessionHeaders == {Undefined, Str("S1"), Str("S2")}

Table(sessionId) ==
    IF sessionId = Undefined THEN EmptyObj ELSE Obj("sessionId" :> sessionId)
Game(session1, session2) ==
    Obj("gameId" :> Str("G") @@ "adminToken" :> Str("T") @@ "currentRound" :> Num(1)
        @@ "tables" :> Obj("1" :> Table(session1) @@ "2" :> Table(session2)))
\* The documents a game starts from: nobody seated, both tables seated
InitGames == {Game(Undefined, Undefined), Game(Str("S1"), Str("S2"))}

\* scores[round][board] of a table update
Scores == Obj("1" :> Obj("1" :> Num(100)))
Join(s) == Obj("sessionId" :> Str(s))
Unlock == Obj("sessionId" :> Null)
Score(s) == Obj("scores" :> Scores @@ "sessionId" :> Str(s))
Tables(t) == Obj("tables" :> Obj(t))
Round == "currentRound" :> Num(2)
Lock(s) == "managementSessionId" :> Str(s)
Release == "managementSessionId" :> Null

\* The PATCH bodies of one facet
FacetUpdates ==
    { EmptyObj, Obj(Round),
      Tables("1" :> Join("S1")), Tables("1" :> Join("S2")),
      Tables("1" :> Unlock), Tables("2" :> Unlock),
      Tables("1" :> Score("S1")), Tables("1" :> Score("S2")),
      Tables("1" :> Obj("scores" :> Scores)),
      Obj("tables" :> Null), Tables("1" :> Null),
      Obj(Lock("S1")), Obj(Lock("S2")), Obj(Release),
      Obj("adminToken" :> Null) }
\* The PATCH bodies of several facets
MixedUpdates ==
    { Obj(Round @@ Lock("S2")),
      Obj(Round @@ "tables" :> Obj("1" :> Unlock)),
      Obj("tables" :> Obj("1" :> Unlock) @@ Lock("S1")),
      Obj("tables" :> Obj("1" :> Join("S1")) @@ Lock("S2")),
      Tables("1" :> Unlock @@ "2" :> Unlock),
      Tables("1" :> Score("S2") @@ "2" :> Unlock),
      Tables("1" :> Null @@ "2" :> Unlock) }
\* req.body of a PATCH: absent, or a JSON object
Updates == {Undefined} \cup FacetUpdates \cup MixedUpdates

\* The requests of the clients that run concurrently: <<body, X-Admin-Token,
\* X-Session-Id>>
ConcRequests ==
    { <<Obj(Lock("S1")), Undefined, Str("S1")>>,
      <<Obj(Lock("S2")), Undefined, Str("S2")>>,
      <<Obj(Release), Undefined, Str("S1")>>,
      <<Obj(Round), Str("T"), Undefined>> }

(***************************************************************************)
(* The state: the value stored under game:<gameId> (Undefined when the key *)
(* is absent), the seconds it has left to live, and each client's request. *)
(* A request carries its method, its body (updates; gameData of a PUT),    *)
(* its headers and query parameters, the document client.get returned and  *)
(* the response.                                                           *)
(* Two history variables record what the clients were told: holders, the   *)
(* session ids whose acquire of the management lock was answered 200 with  *)
(* no release answered 200 since, and staleWrite, whether some PATCH has   *)
(* stored the merge of a document that another write had replaced since    *)
(* it was read.                                                            *)
(***************************************************************************)
VARIABLES kv, ttl, request, holders, staleWrite

(***************************************************************************)
(* The connection of the instance (server.js:126-160): redis, the module   *)
(* variable that holds the client (0 for null, else the index of the       *)
(* client in created), connecting, the flag of getRedisClient, created,    *)
(* the clients createClient has made with the state of each ("connecting": *)
(* connect() is pending, "ready": it has resolved, "closed": it has        *)
(* rejected), and caller, the invocations of the handler that call         *)
(* getRedisClient.                                                         *)
(***************************************************************************)
VARIABLES redis, connecting, created, caller
connection == <<redis, connecting, created, caller>>
store == <<kv, ttl, request, holders, staleWrite>>
vars == <<kv, ttl, request, holders, staleWrite, redis, connecting, created, caller>>

\* The invocations of the handler that run on one instance
NumCallers == 3
Callers == 1 .. NumCallers
\* An invocation that has not called getRedisClient: handed is the client
\* getRedisClient returned (0: none), connected whether the connect() of that
\* client had resolved when it was returned
IdleCaller == [pc |-> "idle", mine |-> 0, handed |-> 0, connected |-> FALSE,
               outcome |-> ""]
\* The instance before its first request: let redis = null; let connecting =
\* false (server.js:126-127)
ColdStart ==
    /\ redis = 0
    /\ connecting = FALSE
    /\ created = <<>>
    /\ caller = [c \in Callers |-> IdleCaller]
\* The instance with its client connected
WarmStart ==
    /\ redis = 1
    /\ connecting = FALSE
    /\ created = <<"ready">>
    /\ caller = [c \in Callers |-> IdleCaller]

Idle == [pc |-> "idle", method |-> "", updates |-> Undefined,
         adminToken |-> Undefined, sessionId |-> Undefined,
         tableNumber |-> Undefined, management |-> FALSE,
         managementSessionId |-> Undefined, existingGame |-> Undefined,
         status |-> 0, facet |-> "none", error |-> "", body |-> Undefined]

\* The store with a game, no request under way
StoreInit ==
    /\ kv \in InitGames
    /\ ttl = EX
    /\ request = [p \in Clients |-> Idle]
    /\ holders = {}
    /\ staleWrite = FALSE

Init == StoreInit /\ WarmStart

\* sendJSON(res, status, ...) and return (server.js:162-164)
Respond(p, r, result, body) ==
    request' = [request EXCEPT ![p] =
        [r EXCEPT !.pc = "done", !.status = result.status, !.facet = result.facet,
                  !.error = result.error, !.body = body]]

\* The holders once a PATCH with these updates is answered with status
HoldersAfter(updates, status) ==
    IF hasOwnProperty(updates, "managementSessionId")
    THEN LET requested == Prop(updates, "managementSessionId") IN
         IF requested = Null
         THEN IF status = 200 THEN {} ELSE holders
         ELSE IF status = 200 THEN holders \cup {requested} ELSE holders
    ELSE holders

\* The PATCH that does not look at its body before the read
PatchGetAnyBody(p, updates, adminToken, sessionId) ==
    /\ request[p].pc = "idle"
    /\ LET r == [Idle EXCEPT !.method = "PATCH", !.updates = updates,
                             !.adminToken = adminToken, !.sessionId = sessionId]
       IN IF ~Truthy(kv)
          THEN /\ Respond(p, r, Deny(404, "get", "Game not found"), Undefined)
               /\ holders' = HoldersAfter(updates, 404)
          ELSE /\ request' = [request EXCEPT ![p] =
                                 [r EXCEPT !.pc = "got", !.existingGame = kv]]
               /\ holders' = holders
    /\ UNCHANGED <<kv, ttl, staleWrite, connection>>

\* The PATCH that takes an absent document for an empty one
PatchGetUpsert(p, updates, adminToken, sessionId) ==
    /\ request[p].pc = "idle"
    /\ LET r == [Idle EXCEPT !.method = "PATCH", !.updates = updates,
                             !.adminToken = adminToken, !.sessionId = sessionId]
       IN IF ~Truthy(updates)
          THEN /\ Respond(p, r, Deny(400, "body", "Invalid request body"), Undefined)
               /\ holders' = HoldersAfter(updates, 400)
          ELSE /\ request' = [request EXCEPT ![p] =
                                 [r EXCEPT !.pc = "got",
                                           !.existingGame = IF Truthy(kv) THEN kv ELSE EmptyObj]]
               /\ holders' = holders
    /\ UNCHANGED <<kv, ttl, staleWrite, connection>>

\* PATCH, up to the answer of client.get (server.js:312-329)
PatchGet(p, updates, adminToken, sessionId) ==
    /\ request[p].pc = "idle"
    /\ LET r == [Idle EXCEPT !.method = "PATCH", !.updates = updates,
                             !.adminToken = adminToken, !.sessionId = sessionId]
       IN IF ~Truthy(updates)
          THEN /\ Respond(p, r, Deny(400, "body", "Invalid request body"), Undefined)
               /\ holders' = HoldersAfter(updates, 400)
          ELSE IF ~Truthy(kv)
          THEN /\ Respond(p, r, Deny(404, "get", "Game not found"), Undefined)
               /\ holders' = HoldersAfter(updates, 404)
          ELSE /\ request' = [request EXCEPT ![p] =
                                 [r EXCEPT !.pc = "got", !.existingGame = kv]]
               /\ holders' = holders
    /\ UNCHANGED <<kv, ttl, staleWrite, connection>>

\* The store given the merged document without its adminToken
StoredWithoutAdminToken(existingGame, updates) ==
    LET updatedGame == JSONRoundTrip(deepMerge(existingGame, updates)) IN
    Obj([key \in DOMAIN updatedGame.v \ {"adminToken"} |-> updatedGame.v[key]])

\* What client.set leaves in the store (server.js:432-435)
Stored(existingGame, updates) == JSONRoundTrip(deepMerge(existingGame, updates))

\* The update performed although the lock check has answered 423
PersistedDespiteLock(result) == result.status \in {200, 423}

\* The update is performed when no check has returned (server.js:431-436)
Persisted(result) == result.status = 200

\* The checks and the update of a PATCH on the document existingGame
PatchApply(p, existingGame) ==
    /\ request[p].pc = "got"
    /\ UNCHANGED connection
    /\ LET r == request[p]
           result == authorize(existingGame, r.updates, r.adminToken, r.sessionId)
       IN /\ IF Persisted(result)
             THEN /\ kv' = Stored(existingGame, r.updates)
                  /\ ttl' = EX
                  /\ staleWrite' = (staleWrite \/ (Truthy(kv) /\ r.existingGame # kv))
             ELSE UNCHANGED <<kv, ttl, staleWrite>>
          /\ Respond(p, r, result,
                     IF result.status = 200 THEN deepMerge(existingGame, r.updates)
                                            ELSE Undefined)
          /\ holders' = HoldersAfter(r.updates, result.status)

\* The checks and the merge on the document that is stored when they run
PatchSetOnStored(p) == PatchApply(p, kv)

\* PATCH, from the answer of client.get to the response (server.js:329-437):
\* the checks and the merge work on the document that client.get returned
PatchSet(p) == PatchApply(p, request[p].existingGame)

\* client.set rejects: the catch answers 500 (server.js:483-491)
StoreFails(p) ==
    /\ request[p].pc = "got"
    /\ authorize(request[p].existingGame, request[p].updates,
                 request[p].adminToken, request[p].sessionId).status = 200
    /\ Respond(p, request[p], Deny(500, "store", "Internal server error"), Undefined)
    /\ holders' = HoldersAfter(request[p].updates, 500)
    /\ UNCHANGED <<kv, ttl, staleWrite, connection>>

\* The invocation of the handler is over: the client has its response
Finish(p) ==
    /\ request[p].pc = "done"
    /\ request' = [request EXCEPT ![p] = Idle]
    /\ UNCHANGED <<kv, ttl, holders, staleWrite, connection>>

\* Time passes; the store drops the key when its time is up
Tick ==
    /\ Truthy(kv)
    /\ IF ttl > TickSeconds
       THEN /\ ttl' = ttl - TickSeconds
            /\ kv' = kv
       ELSE /\ ttl' = 0
            /\ kv' = Undefined
    /\ UNCHANGED <<request, holders, staleWrite, connection>>

\* One client: every request is answered before the next one is sent
Next ==
    \/ \E updates \in Updates, adminToken \in AdminHeaders, sessionId \in SessionHeaders :
          PatchGet(1, updates, adminToken, sessionId)
    \/ PatchSet(1)
    \/ StoreFails(1)
    \/ Finish(1)
    \/ Tick

Spec == Init /\ [][Next]_vars

\* Several clients: their requests interleave at the store operations
ConcNext ==
    \/ \E p \in Clients, req \in ConcRequests : PatchGet(p, req[1], req[2], req[3])
    \/ \E p \in Clients : PatchSet(p)
    \/ \E p \in Clients : Finish(p)

ConcSpec == Init /\ [][ConcNext]_vars

(***************************************************************************)
(* GET and PUT /api/games/:gameId (server.js:223-291, 440-480).            *)
(***************************************************************************)
\* The document given to a reader without its adminToken removed
withToken(game) == game

\* const { adminToken: _, ...gameWithoutToken } = game (server.js:257) and
\* filteredGame = { ...game }; delete filteredGame.adminToken (261-262)
withoutToken(game) ==
    Obj([key \in DOMAIN game.v \ {"adminToken"} |-> game.v[key]])

\* The management of a locked game refused to every session
managementLockedAlways(game, managementSessionId) ==
    Truthy(Prop(game, "managementSessionId"))

\* server.js:252: game.managementSessionId && game.managementSessionId !==
\* managementSessionId
managementLocked(game, managementSessionId) ==
    /\ Truthy(Prop(game, "managementSessionId"))
    /\ ~StrictEq(Prop(game, "managementSessionId"), managementSessionId)

\* server.js:267: tableNumber === '1' ? '2' : '1'
otherTableOf(tableNumber) == IF tableNumber = Str("1") THEN "2" ELSE "1"

\* server.js:266-282: with a table number, the entries of the other table's
\* scores of the current round are replaced by { hidden: true, board }.
\* Reading .board of a null entry throws.
hideScores(game, filteredGame, tableNumber) ==
    LET tables == Prop(game, "tables")
        otherTable == otherTableOf(tableNumber)
        currentRound == PropertyKey(Prop(game, "currentRound"))
        scores == Prop(Prop(tables, otherTable), "scores")
        otherTableScores == Prop(scores, currentRound)
    IN IF Truthy(tableNumber) /\ Truthy(tables) /\ Truthy(otherTableScores)
          /\ isObject(otherTableScores)
       THEN IF \E boardNum \in DOMAIN otherTableScores.v :
                  otherTableScores.v[boardNum] = Null
            THEN [threw |-> TRUE, game |-> Undefined]
            ELSE LET hidden == Obj([boardNum \in DOMAIN otherTableScores.v |->
                                      Obj("hidden" :> Bool(TRUE) @@
                                          "board" :> Prop(otherTableScores.v[boardNum],
                                                          "board"))])
                     table == SetProp(tables.v[otherTable], "scores",
                                      SetProp(scores, currentRound, hidden))
                 IN [threw |-> FALSE,
                     game |-> SetProp(filteredGame, "tables",
                                      SetProp(tables, otherTable, table))]
       ELSE [threw |-> FALSE, game |-> filteredGame]

\* server.js:230-286: the response of GET for the stored document game
getGame(game, adminToken, tableNumber, requestManagement, managementSessionId) ==
    IF Truthy(adminToken)
    THEN IF ~StrictEq(Prop(game, "adminToken"), adminToken)
         THEN [result |-> Deny(403, "admin", "Invalid admin token"), body |-> Undefined]
         ELSE [result |-> Deny(200, "admin", ""), body |-> game]
    ELSE IF requestManagement
    THEN IF managementLocked(game, managementSessionId)
         THEN [result |-> Deny(423, "management",
                               "Game management is currently in use by another session"),
               body |-> Undefined]
         ELSE [result |-> Deny(200, "management", ""), body |-> withoutToken(game)]
    ELSE LET filtered == hideScores(game, withoutToken(game), tableNumber) IN
         IF filtered.threw THEN [result |-> Threw, body |-> Undefined]
         ELSE [result |-> Deny(200, "plain", ""), body |-> JSONRoundTrip(filtered.game)]

\* X-Table-Number or ?table=
TableNumbers == {Undefined, Str("1"), Str("2")}

\* GET /api/games/:gameId (server.js:223-291)
Get(p, adminToken, tableNumber, requestManagement, managementSessionId) ==
    /\ request[p].pc = "idle"
    /\ LET r == [Idle EXCEPT !.method = "GET", !.adminToken = adminToken,
                             !.tableNumber = tableNumber,
                             !.management = requestManagement,
                             !.managementSessionId = managementSessionId,
                             !.existingGame = kv]
       IN IF Truthy(kv)
          THEN LET answer == getGame(kv, adminToken, tableNumber, requestManagement,
                                     managementSessionId)
               IN Respond(p, r, answer.result, answer.body)
          ELSE Respond(p, r, Deny(404, "get", "Game not found"), Undefined)
    /\ UNCHANGED <<kv, ttl, holders, staleWrite, connection>>

\* if (currentRound <= 7), currentRound < 7 (server.js:455, 469)
MaxRound == 7
\* gameData.boardsPerRound || 4 (server.js:453)
DefaultBoardsPerRound == 4

\* The round advanced whenever the scores are complete
advancesThroughSeven(currentRound, allScoresComplete) == allScoresComplete

\* server.js:469: allScoresComplete && currentRound < 7
advances(currentRound, allScoresComplete) ==
    allScoresComplete /\ ToNumber(currentRound) < MaxRound

\* server.js:456-457: gameData.tables?.[n]?.scores?.[currentRound] || {}
tableScores(gameData, tableNum, currentRound) ==
    LET scores == Prop(Prop(Prop(Prop(gameData, "tables"), tableNum), "scores"),
                       PropertyKey(currentRound))
    IN IF Truthy(scores) THEN scores ELSE EmptyObj

\* server.js:451-473: gameData after the check of the current round
autoAdvance(gameData) ==
    LET currentRound == Prop(gameData, "currentRound")
        boardsPerRound == IF Truthy(Prop(gameData, "boardsPerRound"))
                          THEN Prop(gameData, "boardsPerRound")
                          ELSE Num(DefaultBoardsPerRound)
    IN IF ~IsNaN(currentRound) /\ ToNumber(currentRound) <= MaxRound
       THEN LET table1Scores == tableScores(gameData, "1", currentRound)
                table2Scores == tableScores(gameData, "2", currentRound)
                allScoresComplete ==
                    \/ IsNaN(boardsPerRound)
                    \/ \A i \in 1 .. ToNumber(boardsPerRound) :
                          LET boardNum == NumKey((ToNumber(currentRound) - 1)
                                                   * ToNumber(boardsPerRound) + i)
                          IN Truthy(Prop(table1Scores, boardNum))
                             /\ Truthy(Prop(table2Scores, boardNum))
            IN IF advances(currentRound, allScoresComplete)
               THEN SetProp(gameData, "currentRound", Num(ToNumber(currentRound) + 1))
               ELSE gameData
       ELSE gameData

\* PUT /api/games/:gameId (server.js:440-480)
Put(p, gameData) ==
    /\ request[p].pc = "idle"
    /\ LET r == [Idle EXCEPT !.method = "PUT", !.updates = gameData] IN
       IF ~Truthy(gameData)
       THEN /\ Respond(p, r, Deny(400, "body", "Invalid request body"), Undefined)
            /\ UNCHANGED <<kv, ttl>>
       ELSE /\ kv' = JSONRoundTrip(autoAdvance(gameData))
            /\ ttl' = EX
            /\ Respond(p, r, Deny(200, "none", ""), autoAdvance(gameData))
    /\ UNCHANGED <<holders, staleWrite, connection>>

\* client.set of a PUT rejects: the catch answers 500 (server.js:483-491)
PutStoreFails(p, gameData) ==
    /\ request[p].pc = "idle"
    /\ Truthy(gameData)
    /\ Respond(p, [Idle EXCEPT !.method = "PUT", !.updates = gameData],
               Deny(500, "store", "Internal server error"), Undefined)
    /\ UNCHANGED <<kv, ttl, holders, staleWrite, connection>>

\* A score entry of a board, the scores of a set of boards
ScoreEntry(board) == Obj("board" :> Num(board))
BoardScores(boards) ==
    Obj([key \in {NumKey(board) : board \in boards} |->
           ScoreEntry(CHOOSE board \in boards : NumKey(board) = key)])
\* The boards of a round with n boards per round
RoundBoards(round, n) == {(round - 1) * n + i : i \in 1 .. n}
\* How far a table has played the round: no board, all but the last, all
Played == {"none", "some", "all"}
BoardsPlayed(round, n, played) ==
    CASE played = "none" -> {}
      [] played = "some" -> RoundBoards(round, n) \ {round * n}
      [] OTHER -> RoundBoards(round, n)
PlayedTable(sessionId, round, boards) ==
    IF boards = {} THEN Obj("sessionId" :> Str(sessionId))
    ELSE Obj("sessionId" :> Str(sessionId)
             @@ "scores" :> Obj(NumKey(round) :> BoardScores(boards)))
\* A game in round round, with or without the key boardsPerRound
PutGame(round, boardsPerRound, played1, played2) ==
    LET n == IF boardsPerRound = Undefined THEN DefaultBoardsPerRound
             ELSE boardsPerRound.v
        game ==
            "gameId" :> Str("G") @@ "adminToken" :> Str("T")
            @@ "currentRound" :> Num(round)
            @@ "tables" :>
                 Obj("1" :> PlayedTable("S1", round, BoardsPlayed(round, n, played1))
                     @@ "2" :> PlayedTable("S2", round, BoardsPlayed(round, n, played2)))
    IN IF boardsPerRound = Undefined THEN Obj(game)
       ELSE Obj(game @@ "boardsPerRound" :> boardsPerRound)
PutRounds == {1, 6, 7, 8}
PutBoardsPerRound == {Undefined, Num(2)}
\* req.body of a PUT: absent, a document without rounds, a game
PutBodies ==
    {Undefined, Obj("gameId" :> Str("G"))}
    \cup {PutGame(round, boardsPerRound, played1, played2) :
            round \in PutRounds, boardsPerRound \in PutBoardsPerRound,
            played1 \in Played, played2 \in Played}

\* The PATCH requests next to GET and PUT: <<body, X-Admin-Token, X-Session-Id>>
RoundBack == "currentRound" :> Num(1)
ApiRequests ==
    { <<Obj(Round), Str("T"), Undefined>>,
      <<Obj(RoundBack), Str("T"), Undefined>>,
      <<Obj(Lock("S1")), Undefined, Str("S1")>>,
      <<Obj(Release), Str("T"), Undefined>> }

\* One client that reads, replaces and patches the document
ApiNext ==
    \/ \E adminToken \in AdminHeaders, tableNumber \in TableNumbers,
          requestManagement \in BOOLEAN, managementSessionId \in SessionHeaders :
          Get(1, adminToken, tableNumber, requestManagement, managementSessionId)
    \/ \E gameData \in PutBodies : Put(1, gameData)
    \/ \E gameData \in PutBodies : PutStoreFails(1, gameData)
    \/ \E req \in ApiRequests : PatchGet(1, req[1], req[2], req[3])
    \/ PatchSet(1)
    \/ Finish(1)
    \/ Tick

ApiSpec == Init /\ [][ApiNext]_vars

(***************************************************************************)
(* getRedisClient on its own (server.js:129-160): the invocations of one   *)
(* instance, from its first request on.  An invocation runs without        *)
(* interruption from one await to the next.                                *)
(***************************************************************************)
\* getRedisClient, from its call, or from the end of the 100 ms wait, to its
\* first await or its return (server.js:129-152, 158)
getRedisClient(c) ==
    /\ caller[c].pc \in {"idle", "waiting"}
    /\ IF redis = 0
       THEN IF connecting
            THEN /\ caller' = [caller EXCEPT ![c].pc = "waiting"]
                 /\ UNCHANGED <<redis, connecting, created>>
            ELSE /\ connecting' = TRUE
                 /\ created' = Append(created, "connecting")
                 /\ redis' = Len(created) + 1
                 /\ caller' = [caller EXCEPT ![c].pc = "connecting",
                                             ![c].mine = Len(created) + 1]
       ELSE /\ caller' = [caller EXCEPT ![c].pc = "returned", ![c].handed = redis,
                                        ![c].connected = (created[redis] = "ready")]
            /\ UNCHANGED <<redis, connecting, created>>
    /\ UNCHANGED store

\* await redis.connect() resolves: connecting = false; return redis
\* (server.js:151-152, 158)
connectResolves(c) ==
    /\ caller[c].pc = "connecting"
    /\ created' = [created EXCEPT ![caller[c].mine] = "ready"]
    /\ connecting' = FALSE
    /\ caller' = [caller EXCEPT ![c].pc = "returned", ![c].handed = redis,
                                ![c].connected = (redis = caller[c].mine
                                                  \/ created[redis] = "ready")]
    /\ UNCHANGED <<redis, store>>

\* await redis.connect() rejects: connecting = false; throw error
\* (server.js:153-156); the handler answers 500 (483-491)
connectRejects(c) ==
    /\ caller[c].pc = "connecting"
    /\ created' = [created EXCEPT ![caller[c].mine] = "closed"]
    /\ connecting' = FALSE
    /\ caller' = [caller EXCEPT ![c].pc = "answered", ![c].outcome = "connect failed"]
    /\ UNCHANGED <<redis, store>>

\* The store operation of the handler on the client it was handed
\* (server.js:227, 322): it is served by a connected client and rejected by a
\* closed one and by one whose connect() is pending; a command that waits for
\* the pending connect() is the step not yet taken
storeOperation(c) ==
    /\ caller[c].pc = "returned"
    /\ caller' = [caller EXCEPT ![c].pc = "answered",
                                ![c].outcome = IF created[caller[c].handed] = "ready"
                                               THEN "served" ELSE "store failed"]
    /\ UNCHANGED <<redis, connecting, created, store>>

\* The invocation is over
handlerReturns(c) ==
    /\ caller[c].pc = "answered"
    /\ caller' = [caller EXCEPT ![c] = IdleCaller]
    /\ UNCHANGED <<redis, connecting, created, store>>

ConnInit == StoreInit /\ ColdStart

ConnNext ==
    \/ \E c \in Callers : getRedisClient(c)
    \/ \E c \in Callers : connectResolves(c)
    \/ \E c \in Callers : connectRejects(c)
    \/ \E c \in Callers : storeOperation(c)
    \/ \E c \in Callers : handlerReturns(c)

ConnSpec == ConnInit /\ [][ConnNext]_vars

(***************************************************************************)
(* deepMerge on its own: updatedGame = deepMerge(existingGame, updates)    *)
(* (server.js:432) for the documents and updates below.  kv is the         *)
(* existing document, the request of client 1 carries the update and, in   *)
(* body, the merged document.                                              *)
(***************************************************************************)
\* The values of a nested key: scalars, an array, mappings
Leaf == {Num(1), Num(2)}
Inner == {Obj("c" :> Num(1)), Obj("c" :> Num(1) @@ "d" :> Num(2)),
          Obj("c" :> Obj("d" :> Num(1)))}
\* The existing documents
MergeDocs ==
    {EmptyObj, Obj("b" :> Num(1))}
    \cup {Obj("a" :> x) : x \in Leaf \cup Inner \cup {Null, Str("S1"), Arr(<<Num(1)>>)}}
    \cup {Obj("a" :> x @@ "b" :> Num(1)) : x \in Inner}
\* The updates
MergeUpdates ==
    {EmptyObj, Obj("b" :> Null), Obj("b" :> Num(2))}
    \cup {Obj("a" :> x) :
            x \in {Null, Num(2), Arr(<<Num(2), Num(1)>>), EmptyObj,
                   Obj("c" :> Null), Obj("c" :> Num(2)), Obj("d" :> Num(1)),
                   Obj("c" :> Null @@ "d" :> Num(1)),
                   Obj("c" :> Obj("d" :> Null)), Obj("c" :> Arr(<<Num(2)>>))}}

MergeInit ==
    /\ kv \in MergeDocs
    /\ ttl = EX
    /\ request = [p \in Clients |-> Idle]
    /\ holders = {}
    /\ staleWrite = FALSE
    /\ WarmStart

\* updatedGame = deepMerge(existingGame, updates) (server.js:432)
Merge(updates) ==
    /\ request[1].pc = "idle"
    /\ Respond(1, [Idle EXCEPT !.method = "PATCH", !.updates = updates,
                               !.existingGame = kv],
               Deny(200, "none", ""), deepMerge(kv, updates))
    /\ UNCHANGED <<kv, ttl, holders, staleWrite, connection>>

\* The merged document is the existing document of the next merge
\* (server.js:433, 322-329)
KeepMerged ==
    /\ request[1].pc = "done"
    /\ kv' = JSONRoundTrip(request[1].body)
    /\ request' = [request EXCEPT ![1] = Idle]
    /\ UNCHANGED <<ttl, holders, staleWrite, connection>>

MergeNext ==
    \/ \E updates \in MergeUpdates : Merge(updates)
    \/ KeepMerged

MergeSpec == MergeInit /\ [][MergeNext]_vars

(***************************************************************************)
(* What the claims speak of.                                               *)
(***************************************************************************)
\* The step in which client p's PATCH is answered
Answered(p) == request[p].pc # "done" /\ request'[p].pc = "done"
\* The step in which client p's PATCH is answered after its document was read
Decided(p) == request[p].pc = "got" /\ request'[p].pc = "done"
\* The request carries an admin token equal to the adminToken of the document
AdminValid(r) ==
    Truthy(r.adminToken) /\ r.adminToken = Prop(r.existingGame, "adminToken")
\* The sessionId of table tableNum in a document
Occupant(game, tableNum) == Prop(Prop(Prop(game, "tables"), tableNum), "sessionId")
\* The management lock of a document
LockOf(game) == Prop(game, "managementSessionId")
\* The request came to the management lock check: no earlier check answered
ReachedLock(r) == r.facet \in {"lock", "none", "store"}

\* C1: a PATCH that is answered 400, 403, 404 or 423 leaves the stored
\* document and its time to live as they were: no part of the update is applied.
C1_DeniedPatchChangesNothing ==
    [][\A p \in Clients :
          (Answered(p) /\ request'[p].status \in {400, 403, 404, 423})
          => (kv' = kv /\ ttl' = ttl)]_vars

\* C1, witness: a PATCH that joins table 1 and asks for the lock another
\* session holds was answered 423; the join, which no check forbids, is not in
\* the store, and the time to live was not refreshed.
C1_Witness ==
    \E p \in Clients :
       /\ request[p].pc = "done" /\ request[p].status = 423
       /\ request[p].updates = Obj("tables" :> Obj("1" :> Join("S1")) @@ Lock("S2"))
       /\ checkTables(request[p].existingGame, request[p].updates,
                      request[p].adminToken, request[p].sessionId) = Pass
       /\ Occupant(request[p].existingGame, "1") # Str("S1")
       /\ kv = request[p].existingGame
       /\ ttl < EX

\* C2: serialized PATCH requests that set managementSessionId to a non-null
\* value s, at the management lock check (no earlier check of the same request
\* has answered): when the document that was read, still the stored one, is
\* locked by a holder h different from s, the answer is 423 and the stored lock
\* stays h; when it is unlocked or h = s, the lock check does not deny, whatever
\* the credentials; and after an acquire answered 200 the stored lock is s.
C2_LockAcquisition ==
    [][\A p \in Clients :
          LET r == request'[p]
              s == Prop(r.updates, "managementSessionId")
              h == LockOf(r.existingGame)
          IN (/\ Decided(p)
              /\ hasOwnProperty(r.updates, "managementSessionId")
              /\ s # Null
              /\ ReachedLock(r))
             => /\ (Truthy(h) /\ s # h /\ kv = r.existingGame)
                      => (r.status = 423 /\ LockOf(kv') = h)
                /\ (~Truthy(h) \/ s = h) => r.facet # "lock"
                /\ r.status = 200 => LockOf(kv') = s]_vars

\* C2, witness: session S2 asked for the lock that S1 holds, with an admin
\* token that does not match, and was answered 423; the stored lock is S1.
C2_Witness ==
    \E p \in Clients :
       /\ request[p].pc = "done" /\ request[p].status = 423
       /\ Prop(request[p].updates, "managementSessionId") = Str("S2")
       /\ request[p].adminToken = Str("X")
       /\ LockOf(request[p].existingGame) = Str("S1")
       /\ LockOf(kv) = Str("S1")
       /\ holders = {Str("S1")}

\* C3: a PATCH that sets managementSessionId to null on a document locked by
\* a holder h is allowed if and only if its admin token equals the document's
\* adminToken or its session id is h; allowed, it leaves the document unlocked;
\* otherwise it is answered 403 and the lock stays h.
C3_ReleaseIffAdminOrHolder ==
    [][\A p \in Clients :
          LET r == request'[p]
              h == LockOf(r.existingGame)
          IN (/\ Decided(p)
              /\ hasOwnProperty(r.updates, "managementSessionId")
              /\ Prop(r.updates, "managementSessionId") = Null
              /\ Truthy(h)
              /\ kv = r.existingGame
              /\ ReachedLock(r) /\ r.facet # "store")
             => /\ r.status = 200 <=> (AdminValid(r) \/ r.sessionId = h)
                /\ r.status = 200 => ~Truthy(LockOf(kv'))
                /\ r.status # 200 => (r.status = 403 /\ LockOf(kv') = h)]_vars

\* The request carries the session id seated at table 1 or at table 2
Seated(r) ==
    /\ Truthy(r.sessionId)
    /\ \/ r.sessionId = Occupant(r.existingGame, "1")
       \/ r.sessionId = Occupant(r.existingGame, "2")

\* C5: a PATCH whose update has the key currentRound passes the round check
\* if and only if its admin token equals existing.adminToken or its session id
\* is the sessionId of table 1 or table 2; otherwise it is answered 403 and
\* nothing is written.
C5_RoundIffAdminOrSeated ==
    [][\A p \in Clients :
          LET r == request'[p] IN
          (Decided(p) /\ hasOwnProperty(r.updates, "currentRound"))
          => /\ r.facet # "round" <=> (AdminValid(r) \/ Seated(r))
             /\ r.facet = "round" => (r.status = 403 /\ kv' = kv /\ ttl' = ttl)]_vars

\* The table numbers whose entry in the update has sessionId null
Unlocked(updates) ==
    {n \in {"1", "2"} :
        LET tableUpdate == Prop(Prop(updates, "tables"), n) IN
        hasOwnProperty(tableUpdate, "sessionId") /\ Prop(tableUpdate, "sessionId") = Null}

\* C6: a PATCH whose update clears the sessionId of tables passes the unlock
\* check if and only if, for each of them, its admin token is valid or its
\* session id is the table's sessionId in the existing document; otherwise it
\* is answered 403 and the tables stay as they were.  (Requests that another
\* check of the round or of a table has answered before are left aside.)
C6_UnlockIffAdminOrOccupant ==
    [][\A p \in Clients :
          LET r == request'[p] IN
          (/\ Decided(p)
           /\ Unlocked(r.updates) # {}
           /\ r.facet \in {"unlock", "lock", "none", "store"})
          => /\ r.facet # "unlock" <=>
                  \A n \in Unlocked(r.updates) :
                     \/ AdminValid(r)
                     \/ (Truthy(r.sessionId) /\ r.sessionId = Occupant(r.existingGame, n))
             /\ r.facet = "unlock" => (r.status = 403 /\ kv' = kv)]_vars

\* The table numbers whose entry in the update carries scores
Scored(updates) ==
    {n \in {"1", "2"} : Truthy(Prop(Prop(Prop(updates, "tables"), n), "scores"))}
\* Table n is occupied by another session than the one its update entry carries
Foreign(r, n) ==
    /\ Truthy(Occupant(r.existingGame, n))
    /\ Occupant(r.existingGame, n) # Prop(Prop(Prop(r.updates, "tables"), n), "sessionId")

C8_UnseatOnlyPrivileged ==
    [][\A p \in Clients : \A n \in {"1", "2"} :
          (Decided(p) /\ Truthy(Occupant(kv, n)) /\ ~Truthy(Occupant(kv', n)))
          => (AdminValid(request'[p]) \/ request'[p].sessionId = Occupant(kv, n))]_vars

\* C9: the stored document's adminToken is the one it was created with.
C9_AdminTokenNeverChanges ==
    Truthy(kv) => Prop(kv, "adminToken") = Str("T")

\* C4: there are never two distinct session ids that were each answered 200
\* for an acquire of the management lock with no release answered 200 since.
C4_NeverTwoHolders == Cardinality(holders) <= 1

\* C4, amended: as long as no PATCH has stored the merge of a document that
\* another write had replaced since it was read, the management lock has at
\* most one holder, and it is the stored managementSessionId.
C4_OneHolderUnlessStaleWrite ==
    staleWrite \/ (Cardinality(holders) <= 1 /\ holders \subseteq {LockOf(kv)})

\* C4, witness: with two clients at work and no stale write, S1 holds the lock
\* and the acquire of S2 was answered 423.
C4_Witness ==
    /\ ~staleWrite
    /\ holders = {Str("S1")}
    /\ \E p \in Clients :
          /\ request[p].pc = "done" /\ request[p].status = 423
          /\ Prop(request[p].updates, "managementSessionId") = Str("S2")
    /\ \E q \in Clients :
          /\ request[q].pc = "done" /\ request[q].status = 200
          /\ Prop(request[q].updates, "managementSessionId") = Str("S1")

\* The top-level keys of a document
Keys(game) == IF isObject(game) THEN DOMAIN game.v ELSE {}

\* C10: last writer wins for the whole document.  A PATCH answered 200 stores,
\* under every key its update does not name, the value of the document it read,
\* whatever has been stored since; so of two PATCHes that read the same document
\* and touch disjoint keys, the later write drops the change of the earlier.
C10_WriteKeepsTheDocumentRead ==
    [][\A p \in Clients :
          LET r == request'[p] IN
          (Decided(p) /\ r.status = 200)
          => \A key \in (Keys(r.existingGame) \cup Keys(kv') \cup Keys(kv)) \ Keys(r.updates) :
                Prop(kv', key) = Prop(r.existingGame, key)]_vars

\* C10, witness: the lost update.  Two clients read the same document; one
\* advanced the round, the other took the management lock; both were answered
\* 200, with the round advanced in the first response; the stored document has
\* the lock and the round of the document they read.
C10_LostUpdate ==
    \E p, q \in Clients :
       /\ p # q
       /\ request[p].pc = "done" /\ request[p].status = 200
       /\ request[q].pc = "done" /\ request[q].status = 200
       /\ request[p].existingGame = request[q].existingGame
       /\ request[p].updates = Obj(Round)
       /\ request[q].updates = Obj(Lock("S1"))
       /\ Prop(request[p].existingGame, "currentRound") = Num(1)
       /\ Prop(request[p].body, "currentRound") = Num(2)
       /\ LockOf(kv) = Str("S1")
       /\ Prop(kv, "currentRound") = Num(1)

\* The answer of a request, as the checks give theirs
Answer(r) == [status |-> r.status, facet |-> r.facet, error |-> r.error]
\* The table numbers the loop of a request visits, in its order
TableKeys(r) ==
    IF Truthy(Prop(r.updates, "tables")) THEN ObjectKeys(Prop(r.updates, "tables")) ELSE <<>>
\* The entry of table n in the update of a request, and in the document it read
TableUpdate(r, n) == Prop(Prop(r.updates, "tables"), n)
ExistingTable(r, n) == Prop(Prop(r.existingGame, "tables"), n)
\* What each facet of a request would answer when asked alone
RoundFacet(r) == checkRound(r.existingGame, r.updates, r.adminToken, r.sessionId)
UnlockFacet(r, n) ==
    checkUnlock(r.existingGame, TableUpdate(r, n), ExistingTable(r, n),
                r.adminToken, r.sessionId)
ScoresFacet(r, n) ==
    checkScores(r.existingGame, TableUpdate(r, n), ExistingTable(r, n), r.adminToken)
LockFacet(r) == checkManagementLock(r.existingGame, r.updates, r.adminToken, r.sessionId)
\* The first element of a sequence of answers that is not Pass; 200 when all pass
FirstDenial(answers) ==
    IF \E i \in DOMAIN answers : answers[i] # Pass
    THEN answers[CHOOSE i \in DOMAIN answers :
                    /\ answers[i] # Pass
                    /\ \A j \in 1 .. (i - 1) : answers[j] = Pass]
    ELSE Deny(200, "none", "")
\* The number of facets of a sequence that would deny
Denials(answers) == Cardinality({i \in DOMAIN answers : answers[i] # Pass})
\* The facets of the sequence keys of table numbers, all unlocks first
UnlockFacets(r, keys) == [i \in DOMAIN keys |-> UnlockFacet(r, keys[i])]
ScoresFacets(r, keys) == [i \in DOMAIN keys |-> ScoresFacet(r, keys[i])]
\* Round, unlock of all tables, score write of all tables, management lock
AllTablesOrder(r) ==
    <<RoundFacet(r)>> \o UnlockFacets(r, TableKeys(r)) \o ScoresFacets(r, TableKeys(r))
       \o <<LockFacet(r)>>
\* The facets of one table: a null entry throws, else its unlock, then its scores
TableFacets(r, n) ==
    IF TableUpdate(r, n) = Null THEN <<Threw>>
    ELSE <<UnlockFacet(r, n), ScoresFacet(r, n)>>
\* Round, then table by table (unlock, score write), then management lock
TableByTableOrder(r) ==
    LET keys == TableKeys(r) IN
    <<RoundFacet(r)>>
       \o (IF Len(keys) >= 1 THEN TableFacets(r, keys[1]) ELSE <<>>)
       \o (IF Len(keys) >= 2 THEN TableFacets(r, keys[2]) ELSE <<>>)
       \o <<LockFacet(r)>>
\* No entry under tables of the update is null
NoNullEntry(r) == \A i \in DOMAIN TableKeys(r) : TableUpdate(r, TableKeys(r)[i]) # Null

\* C11: when several facets of one update would each be denied, the response
\* carries the denial of the earliest facet in the order round advancement,
\* table unlock (all tables), score write (all tables), management lock change.
C11_EarliestFacetAllTablesFirst ==
    [][\A p \in Clients :
          LET r == request'[p] IN
          (Decided(p) /\ NoNullEntry(r) /\ Denials(AllTablesOrder(r)) >= 2)
          => Answer(r) = FirstDenial(AllTablesOrder(r))]_vars

\* C11, amended: the response of a PATCH on a stored document carries the
\* answer of the earliest facet that does not pass in the order round
\* advancement, then for each table of the update in ascending table number its
\* unlock and then its score write (a null entry ends the request with 500
\* there), then management lock change.
C11_EarliestFacetTableByTable ==
    [][\A p \in Clients :
          LET r == request'[p] IN
          (Decided(p) /\ r.facet # "store" /\ Denials(TableByTableOrder(r)) >= 1)
          => Answer(r) = FirstDenial(TableByTableOrder(r))]_vars

\* C11, witness: scores for table 1 with the session id of another session
\* and the unlock of table 2, both without credentials on seated tables: each
\* would be denied; the response is the denial of the score write of table 1.
C11_Witness ==
    \E p \in Clients :
       LET r == request[p] IN
       /\ r.pc = "done"
       /\ r.updates = Tables("1" :> Score("S2") @@ "2" :> Unlock)
       /\ r.adminToken = Undefined /\ r.sessionId = Undefined
       /\ ScoresFacet(r, "1") # Pass /\ UnlockFacet(r, "2") # Pass
       /\ r.status = 403 /\ r.error = "Not authorized to update this table"

\* The step in which client p sends a PATCH
Sent(p) == request[p].pc = "idle" /\ request'[p].pc # "idle"

\* C12: PATCH never creates a document.  A PATCH with a body that finds no
\* document stored is answered 404 at once and writes nothing; and while no
\* PATCH is under way that read the document before it went, no step of a
\* PATCH makes an absent document present.
C12_PatchNeverCreates ==
    [][/\ \A p \in Clients :
             (Sent(p) /\ ~Truthy(kv) /\ Truthy(request'[p].updates))
             => /\ request'[p].pc = "done" /\ request'[p].status = 404
                /\ kv' = kv /\ ttl' = ttl
       /\ (~Truthy(kv) /\ \A p \in Clients : request[p].pc # "got")
             => ~Truthy(kv')]_vars

\* C12, witness: the document has expired; a PATCH that asks for the
\* management lock with the game's admin token was answered 404 and there is
\* still no document.
C12_Witness ==
    \E p \in Clients :
       /\ request[p].pc = "done" /\ request[p].status = 404
       /\ request[p].updates = Obj(Lock("S1"))
       /\ request[p].adminToken = Str("T")
       /\ kv = Undefined /\ ttl = 0

C14_AllowedPatchStoresTheMerge ==
    [][\A p \in Clients :
          LET r == request'[p] IN
          (Decided(p) /\ r.status = 200)
          => /\ kv' = deepMerge(r.existingGame, r.updates)
             /\ ttl' = EX
             /\ r.body = kv'
             /\ hasOwnProperty(kv', "adminToken")
                   => Prop(r.body, "adminToken") = Prop(kv', "adminToken")
             /\ (hasOwnProperty(r.existingGame, "adminToken")
                 /\ ~hasOwnProperty(r.updates, "adminToken"))
                   => Prop(r.body, "adminToken") = Prop(r.existingGame, "adminToken")]_vars

\* C14, witness: session S1 took the management lock of an unlocked document;
\* the response is the stored document, with the lock and the adminToken, and
\* the time to live is 86400.
C14_Witness ==
    \E p \in Clients :
       /\ request[p].pc = "done" /\ request[p].status = 200
       /\ request[p].updates = Obj(Lock("S1"))
       /\ request[p].adminToken = Undefined
       /\ ~Truthy(LockOf(request[p].existingGame))
       /\ request[p].body = kv
       /\ LockOf(kv) = Str("S1")
       /\ Prop(request[p].body, "adminToken") = Str("T")
       /\ ttl = EX

\* No key that is null in source, at any depth, is a key of result there
RECURSIVE NullsGone(_, _)
NullsGone(result, source) ==
    \A key \in DOMAIN source.v :
       /\ source.v[key] = Null => key \notin DOMAIN result.v
       /\ (isObject(source.v[key]) /\ isObject(Prop(result, key)))
             => NullsGone(result.v[key], source.v[key])

\* C15: merge deletion.  A key whose value in the update is null, at the top
\* level or inside any nested mapping of the update, is absent from the merged
\* result, whether or not it existed before.
C15_NullsDeletedAtEveryDepth ==
    request[1].pc = "done" => NullsGone(request[1].body, request[1].updates)

\* No key that is null in source is a key of result, at the top level and in
\* the nested mappings of source that meet a mapping of target; a nested
\* mapping of source under a key that target lacks is in result as it is
RECURSIVE NullsGoneWhereMerged(_, _, _)
NullsGoneWhereMerged(result, target, source) ==
    \A key \in DOMAIN source.v :
       /\ source.v[key] = Null => key \notin DOMAIN result.v
       /\ isObject(source.v[key]) =>
             /\ key \in DOMAIN result.v
             /\ key \notin DOMAIN target.v => result.v[key] = source.v[key]
             /\ isObject(Prop(target, key)) =>
                   NullsGoneWhereMerged(result.v[key], target.v[key], source.v[key])

\* C15, amended: a key whose value in the update is null is absent from the
\* merged result at the top level and inside every nested mapping of the
\* update that is merged into a mapping of the existing document; a nested
\* mapping of the update under a key the existing document lacks is taken as
\* it is, its nulls included.
C15_NullsDeletedWhereMerged ==
    request[1].pc = "done"
    => NullsGoneWhereMerged(request[1].body, request[1].existingGame, request[1].updates)

\* C15, witness: the update {a: {c: null}} merged into {a: {c: 1, d: 2}, b: 1}
\* gave {a: {d: 2}, b: 1}.
C15_Witness ==
    /\ request[1].pc = "done"
    /\ request[1].existingGame = Obj("a" :> Obj("c" :> Num(1) @@ "d" :> Num(2)) @@ "b" :> Num(1))
    /\ request[1].updates = Obj("a" :> Obj("c" :> Null))
    /\ request[1].body = Obj("a" :> Obj("d" :> Num(2)) @@ "b" :> Num(1))

\* The keys of target that source lacks have their value of target in result,
\* at the top level and where the merge recurses; a scalar or an array of
\* source is the value of its key in result
RECURSIVE Framed(_, _, _)
Framed(result, target, source) ==
    /\ \A key \in DOMAIN target.v \ DOMAIN source.v :
          key \in DOMAIN result.v /\ result.v[key] = target.v[key]
    /\ \A key \in DOMAIN source.v :
          /\ (source.v[key] # Null /\ ~isObject(source.v[key]))
                => (key \in DOMAIN result.v /\ result.v[key] = source.v[key])
          /\ (isObject(source.v[key]) /\ isObject(Prop(target, key)))
                => (/\ isObject(Prop(result, key))
                    /\ Framed(result.v[key], target.v[key], source.v[key]))

\* C16: merge frame.  Every key present in existing and absent from update
\* keeps its value in the merged result, at the top level and in every nested
\* mapping the merge recurses into; a scalar or array value in the update
\* replaces the existing value wholesale; the existing document and the update
\* are as they were.
C16_MergeFrame ==
    request[1].pc = "done"
    => /\ Framed(request[1].body, request[1].existingGame, request[1].updates)
       /\ request[1].existingGame = kv

\* C16, witness: the update {a: {c: 2}} merged into {a: {c: 1, d: 2}, b: 1}
\* gave {a: {c: 2, d: 2}, b: 1}.
C16_Witness ==
    /\ request[1].pc = "done"
    /\ request[1].existingGame = Obj("a" :> Obj("c" :> Num(1) @@ "d" :> Num(2)) @@ "b" :> Num(1))
    /\ request[1].updates = Obj("a" :> Obj("c" :> Num(2)))
    /\ request[1].body = Obj("a" :> Obj("c" :> Num(2) @@ "d" :> Num(2)) @@ "b" :> Num(1))

\* The currentRound of a document, when it is a number
RoundOf(game) == Prop(game, "currentRound")
HasRound(game) == RoundOf(game).k = "number"

\* C17: currentRound is monotonic: across any sequence of successful PATCH
\* and PUT requests on one document, the stored currentRound never decreases.
C17_CurrentRoundNeverDecreases ==
    [][(HasRound(kv) /\ HasRound(kv')) => RoundOf(kv').v >= RoundOf(kv).v]_vars

\* The step in which client p's GET of a stored document is answered
GetAnswered(p) == Sent(p) /\ request'[p].method = "GET" /\ Truthy(kv)

\* C18: GET never discloses adminToken to a non-admin reader and never
\* writes.  A GET with an admin token that is not the document's is answered
\* 403 with no document; a GET without admin token that is given the document
\* (plain, or management=true when the lock lets it) is given every key of it
\* but adminToken; only a GET with the document's admin token is given the
\* document with its adminToken; no GET changes the stored document or its
\* time to live.
C18_GetNeverDisclosesAdminToken ==
    [][\A p \in Clients :
          LET r == request'[p] IN
          GetAnswered(p)
          => /\ kv' = kv /\ ttl' = ttl
             /\ (Truthy(r.adminToken) /\ r.adminToken # Prop(kv, "adminToken"))
                   => (r.status = 403 /\ r.body = Undefined)
             /\ (Truthy(r.adminToken) /\ r.adminToken = Prop(kv, "adminToken"))
                   => (r.status = 200 /\ r.body = kv)
             /\ ~Truthy(r.adminToken)
                   => /\ ~r.management => r.status = 200
                      /\ r.status = 200
                           => /\ ~hasOwnProperty(r.body, "adminToken")
                              /\ Keys(r.body) = Keys(kv) \ {"adminToken"}
                              /\ \A key \in Keys(r.body) \ {"tables"} :
                                    Prop(r.body, key) = Prop(kv, key)
                      /\ r.status # 200 => r.body = Undefined]_vars

\* C18, witness: a GET with management=true and no admin token was answered
\* 200 with the document less its adminToken; the stored document has its
\* adminToken and its time to live has not been reset.
C18_Witness ==
    \E p \in Clients :
       /\ request[p].pc = "done" /\ request[p].method = "GET"
       /\ request[p].adminToken = Undefined /\ request[p].management
       /\ request[p].status = 200
       /\ ~hasOwnProperty(request[p].body, "adminToken")
       /\ Prop(request[p].body, "gameId") = Str("G")
       /\ Prop(kv, "adminToken") = Str("T")
       /\ ttl > 0 /\ ttl < EX

\* C19: a GET with management=true and no admin token is answered 423 exactly
\* when the stored managementSessionId is set and differs from the header
\* X-Management-Session-Id of the request; when the lock is free or held by the
\* requesting session it is answered 200; in both cases the GET leaves the
\* lock as it is.
C19_ManagementGet ==
    [][\A p \in Clients :
          LET r == request'[p] IN
          (GetAnswered(p) /\ r.management /\ ~Truthy(r.adminToken))
          => /\ r.status = 423 <=>
                   (Truthy(LockOf(kv)) /\ LockOf(kv) # r.managementSessionId)
             /\ r.status # 423 => r.status = 200
             /\ LockOf(kv') = LockOf(kv) /\ kv' = kv /\ holders' = holders]_vars

\* C19, witness: session S1 holds the management lock; a GET with
\* management=true of session S2 was answered 423 and the lock is still S1's.
C19_Witness ==
    \E p \in Clients :
       /\ request[p].pc = "done" /\ request[p].method = "GET"
       /\ request[p].management /\ request[p].adminToken = Undefined
       /\ request[p].managementSessionId = Str("S2")
       /\ request[p].status = 423
       /\ LockOf(kv) = Str("S1")

\* Table tableNum of gameData has a score entry for board under round
HasScore(gameData, tableNum, round, board) ==
    hasOwnProperty(Prop(Prop(Prop(Prop(gameData, "tables"), tableNum), "scores"),
                        NumKey(round)),
                   NumKey(board))
\* boardsPerRound of gameData, 4 when absent
BoardsPerRoundOf(gameData) ==
    IF hasOwnProperty(gameData, "boardsPerRound")
    THEN Prop(gameData, "boardsPerRound").v
    ELSE DefaultBoardsPerRound
\* Both tables have a score entry for every board of the current round
RoundComplete(gameData) ==
    LET round == RoundOf(gameData).v
        n == BoardsPerRoundOf(gameData)
    IN \A i \in 1 .. n :
          /\ HasScore(gameData, "1", round, (round - 1) * n + i)
          /\ HasScore(gameData, "2", round, (round - 1) * n + i)

\* C20: PUT round completion.  A PUT stores its body with currentRound
\* incremented by exactly one if and only if currentRound < 7 and, for every i
\* in 1..boardsPerRound (4 when absent), both table 1 and table 2 have a score
\* entry for board (currentRound-1)*boardsPerRound+i under round currentRound;
\* otherwise it stores the body unchanged.  No PUT raises currentRound by more
\* than one, and none raises it above 7.
C20_PutRoundCompletion ==
    [][\A p \in Clients :
          LET r == request'[p]
              gameData == r.updates
          IN (Sent(p) /\ r.method = "PUT" /\ r.status = 200)
             => /\ IF HasRound(gameData) /\ RoundOf(gameData).v < MaxRound
                      /\ RoundComplete(gameData)
                   THEN kv' = SetProp(gameData, "currentRound",
                                      Num(RoundOf(gameData).v + 1))
                   ELSE kv' = gameData
                /\ (HasRound(gameData) /\ RoundOf(kv') # RoundOf(gameData))
                      => /\ RoundOf(kv').v = RoundOf(gameData).v + 1
                         /\ RoundOf(kv').v <= MaxRound]_vars

\* C20, witness: a PUT of a game in round 6 with 2 boards per round and the
\* boards 11 and 12 scored at both tables was answered 200; the stored document
\* is in round 7 and keeps the scores.
C20_Witness ==
    \E p \in Clients :
       /\ request[p].pc = "done" /\ request[p].method = "PUT"
       /\ request[p].status = 200
       /\ request[p].updates = PutGame(6, Num(2), "all", "all")
       /\ HasScore(kv, "1", 6, 11) /\ HasScore(kv, "2", 6, 12)
       /\ RoundOf(kv) = Num(7)

\* C21: getRedisClient hands out only a connected client: every caller to
\* which getRedisClient has returned was given a client whose connect() had
\* completed successfully, also a caller that arrived while the connection
\* attempt of another caller was in flight and a caller that arrived after an
\* attempt had failed.
C21_OnlyConnectedClients ==
    \A c \in Callers : caller[c].handed # 0 => caller[c].connected

\* C22: a PATCH is answered 500 only when a store operation fails: with a
\* working store every PATCH whose body is a JSON object, whatever it holds
\* (null or non-mapping values under tables too), is answered 200, 400, 403,
\* 404 or 423; and a PATCH answered 500 has written nothing.
C22_Only500OnStoreFailure ==
    [][\A p \in Clients :
          (Answered(p) /\ request'[p].method = "PATCH" /\ request'[p].status = 500)
          => (request'[p].facet = "store" /\ kv' = kv /\ ttl' = ttl)]_vars

\* Every entry of source that is not null is in result with its value, the
\* entries of the nested mappings of source under the same keys of result
RECURSIVE Written(_, _)
Written(result, source) ==
    \A key \in DOMAIN source.v :
       LET value == source.v[key] IN
       CASE value = Null -> TRUE
         [] isObject(value) -> /\ isObject(Prop(result, key))
                               /\ Written(result.v[key], value)
         [] OTHER -> Prop(result, key) = value

\* C23: merge writes every nested update: if update[key] is a mapping, every
\* non-null entry of update[key] is under result[key] with its value
\* (recursively), whatever existing[key] is: absent, a mapping, null, a scalar
\* or an array.
C23_NestedUpdateWritten ==
    request[1].pc = "done" => Written(request[1].body, request[1].updates)

\* C24: applying the same update twice is the same as applying it once:
\* merge(merge(d, u), u) = merge(d, u), so the repeated PATCH leaves the stored
\* document as after the first.
C24_MergeIdempotent ==
    request[1].pc = "done"
    => deepMerge(JSONRoundTrip(request[1].body), request[1].updates) = request[1].body

====
